---- MODULE Spec2Model ----
(***************************************************************************)
(* Model of EV3/lmsdisasm.py: the lms2012 byte-code disassembler and the   *)
(* decoder of recorded EV3 communication.                                  *)
(*                                                                         *)
(* A file or packet is a sequence of bytes (0..255) and a cursor is the    *)
(* number of bytes already read, as infile.tell().  A Python exception is  *)
(* a non-empty "err" field carrying the exception's name.  Rendered text   *)
(* is kept as tokens: one record per rendered parameter.                   *)
(***************************************************************************)
EXTENDS Integers, Sequences, FiniteSets, TLC

VARIABLES
    infile,     \* the bytes the cursor reads: the program file, or buffer + data
    pos,        \* infile.tell()
    start,      \* header.offset of the object being rendered (0 in a packet)
    id,         \* the object's number (42 in a packet)
    pc,         \* where the control is: "ops" (the loop of parse_object), "direct"
                \* (the loop of parse_sent), "idle" (between two records),
                \* "done", "crashed"
    err,        \* the uncaught exception that ended the run, "" if none
    out,        \* the lines printed for the object or for the latest record
    buffer,     \* parse_communication: sent data that was not complete
    filename,   \* the global name of the file being dumped, Undefined at start
    fs,         \* the working directory: file name -> contents
    cur,        \* the record of the trace being processed
    sentlog,    \* the sent records processed so far, each with its report
    nrec        \* records consumed so far

vars == <<infile, pos, start, id, pc, err, out, buffer, filename, fs,
          cur, sentlog, nrec>>

-----------------------------------------------------------------------------
(* Bounds of the model. *)

MaxCode == 4        \* bytes of an object's instruction stream
MaxRecords == 4     \* records of a communication trace

-----------------------------------------------------------------------------
(* Bytes and integers. *)

RECURSIVE BitAnd(_, _)
BitAnd(a, b) ==
    IF a = 0 \/ b = 0 THEN 0
    ELSE (a % 2) * (b % 2) + 2 * BitAnd(a \div 2, b \div 2)

\* bytes left after the cursor
Remaining(f, p) == Len(f) - p

\* little-endian unsigned value of n bytes at cursor p (requires n bytes left)
RECURSIVE LittleEndian(_, _, _)
LittleEndian(f, p, n) ==
    IF n = 0 THEN 0 ELSE f[p + 1] + 256 * LittleEndian(f, p + 1, n - 1)

-----------------------------------------------------------------------------
(* Rendered parameters.  w: a prefix put before the text ("OBJECT"),       *)
(* k: the kind of text, s: a name, n and m: numbers, b: a byte string.      *)

Tok(k, s, n, m, b) == [w |-> "", k |-> k, s |-> s, n |-> n, m |-> m, b |-> b]

Num(n) == Tok("num", "", n, 0, <<>>)            \* str(n)
Big(n) == Tok("big", "", n, 0, <<>>)            \* str(n + 2^31)
Str(b) == Tok("str", "", 0, 0, b)               \* a quoted string
Name(s) == Tok("name", s, 0, 0, <<>>)           \* a bare word
NoTok == Tok("none", "", 0, 0, <<>>)

\* int(text): the value, defined only for the text of a decimal number
IsInt(t) == t.w = "" /\ t.k \in {"num", "big"}

Ok(p, v) == [err |-> "", pos |-> p, v |-> v]
Fail(e, p) == [err |-> e, pos |-> p, v |-> NoTok]

OkList(p, vs) == [err |-> "", pos |-> p, vs |-> vs]
FailList(e, p) == [err |-> e, pos |-> p, vs |-> <<>>]

-----------------------------------------------------------------------------
(* The parameter encoding of lms2012 (bytecodes.h), which lmsdisasm.py     *)
(* imports by name from lms2012.                                           *)

PRIMPAR_LONG == 128
PRIMPAR_VARIABLE == 64
PRIMPAR_GLOBAL == 32
PRIMPAR_HANDLE == 16
PRIMPAR_ADDR == 8
PRIMPAR_INDEX == 31
PRIMPAR_CONST_SIGN == 32
PRIMPAR_VALUE == 63
PRIMPAR_BYTES == 7
PRIMPAR_STRING_OLD == 0
PRIMPAR_1_BYTE == 1
PRIMPAR_2_BYTES == 2
PRIMPAR_4_BYTES == 3
PRIMPAR_STRING == 4
PRIMPAR_LABEL == 32

\* the reserved patterns of a float, as the four bytes in the file
DATAF_MAX == <<255, 255, 127, 127>>
DATAF_MIN == <<255, 255, 127, 255>>
DATAF_NAN == <<0, 0, 192, 127>>

-----------------------------------------------------------------------------
(* parse_string, quote_string *)

\* the cursor of the first zero byte at or after p, -1 if there is none
RECURSIVE ZeroFrom(_, _)
ZeroFrom(f, p) ==
    IF p >= Len(f) THEN -1
    ELSE IF f[p + 1] = 0 THEN p
    ELSE ZeroFrom(f, p + 1)

\* parse_string: the bytes up to the zero byte, which is consumed too;
\* ord('') at the end of the input is a TypeError
parse_string(f, p) ==
    LET z == ZeroFrom(f, p) IN
    IF z < 0 THEN [err |-> "TypeError", pos |-> Len(f), b |-> <<>>]
    ELSE [err |-> "", pos |-> z + 1, b |-> SubSeq(f, p + 1, z)]

EscapeByte(c) ==
    CASE c = 9 -> <<92, 116>>       \* "\t" -> "\\t"
      [] c = 13 -> <<92, 114>>      \* "\r" -> "\\r"
      [] c = 10 -> <<92, 110>>      \* "\n" -> "\\n"
      [] c = 39 -> <<92, 113>>      \* "'"  -> "\\q"
      [] OTHER -> <<c>>

RECURSIVE Escape(_)
Escape(b) == IF b = <<>> THEN <<>> ELSE EscapeByte(Head(b)) \o Escape(Tail(b))

quote_string(value) == <<39>> \o Escape(value) \o <<39>>

-----------------------------------------------------------------------------
(* parse_primpar *)

\* the unsigned value of four bytes: a number of 2^31 and more is kept
\* as Big of its low 31 bits
Unsigned32(f, p) ==
    IF f[p + 4] >= 128
    THEN Big(LittleEndian(f, p, 3) + 16777216 * (f[p + 4] - 128))
    ELSE Num(LittleEndian(f, p, 4))

\* struct.unpack of n bytes: struct.error when read(n) came back short
ReadUnsigned(f, p, n) ==
    IF Remaining(f, p) < n THEN Fail("struct.error", Len(f))
    ELSE IF n = 4 THEN Ok(p + 4, Unsigned32(f, p))
    ELSE Ok(p + n, Num(LittleEndian(f, p, n)))

\* line 172: quote_string(parse_string(infile))
QuotedString(r) ==
    IF r.err # "" THEN Fail(r.err, r.pos) ELSE Ok(r.pos, Str(quote_string(r.b)))

parse_primpar(sizecode, f, p) ==
    IF sizecode = PRIMPAR_1_BYTE THEN ReadUnsigned(f, p, 1)
    ELSE IF sizecode = PRIMPAR_2_BYTES THEN ReadUnsigned(f, p, 2)
    ELSE IF sizecode = PRIMPAR_4_BYTES THEN ReadUnsigned(f, p, 4)
    ELSE IF sizecode = PRIMPAR_STRING \/ sizecode = PRIMPAR_STRING_OLD
    THEN QuotedString(parse_string(f, p))
    ELSE Fail("ValueError", p)

-----------------------------------------------------------------------------
(* parse_param *)

Scope(first_byte) ==
    IF BitAnd(first_byte, PRIMPAR_GLOBAL) # 0 THEN "GLOBAL" ELSE "LOCAL"

HandleScope(first_byte) ==
    IF BitAnd(first_byte, PRIMPAR_GLOBAL) # 0 THEN "@GLOBAL" ELSE "@LOCAL"

\* "{handle}{scope}{data}": data is the text parse_primpar gave
VarRef(s, data) ==
    IF data.k = "str" THEN Tok("varstr", s, 0, 0, data.b)
    ELSE Tok(IF data.k = "big" THEN "varbig" ELSE "var", s, data.n, 0, <<>>)

\* a constant of a PARF parameter: four bytes, the three reserved patterns by name
FloatConst(size, f, p) ==
    IF size # PRIMPAR_4_BYTES THEN Fail("ValueError", p)
    ELSE IF Remaining(f, p) < 4 THEN Fail("struct.error", Len(f))
    ELSE IF SubSeq(f, p + 1, p + 4) = DATAF_MAX THEN Ok(p + 4, Name("DATAF_MAX"))
    ELSE IF SubSeq(f, p + 1, p + 4) = DATAF_MIN THEN Ok(p + 4, Name("DATAF_MIN"))
    ELSE IF SubSeq(f, p + 1, p + 4) = DATAF_NAN THEN Ok(p + 4, Name("DATAF_NAN"))
    ELSE Ok(p + 4, Tok("float", "", 0, 0, SubSeq(f, p + 1, p + 4)))

\* lines 187-192: the reference, once its index is decoded
VariableRef(first_byte, data) ==
    IF data.err # "" THEN data
    ELSE IF BitAnd(first_byte, PRIMPAR_HANDLE) # 0
         THEN Ok(data.pos, VarRef(HandleScope(first_byte), data.v))
    ELSE IF BitAnd(first_byte, PRIMPAR_ADDR) # 0
         THEN Fail("NotImplementedError", data.pos)
    ELSE Ok(data.pos, VarRef(Scope(first_byte), data.v))

LongVariable(first_byte, f, p) ==
    VariableRef(first_byte, parse_primpar(BitAnd(first_byte, PRIMPAR_BYTES), f, p))

LongConst(param, first_byte, f, p) ==
    IF BitAnd(first_byte, PRIMPAR_LABEL) # 0 THEN
        IF Remaining(f, p) < 1 THEN Fail("TypeError", p)
        ELSE Ok(p + 1, Tok("label", "", f[p + 1], 0, <<>>))
    ELSE IF param = "PARF" THEN FloatConst(BitAnd(first_byte, PRIMPAR_BYTES), f, p)
    ELSE parse_primpar(BitAnd(first_byte, PRIMPAR_BYTES), f, p)

ShortForm(first_byte, p) ==
    IF BitAnd(first_byte, PRIMPAR_VARIABLE) # 0
    THEN Ok(p, Tok("var", Scope(first_byte), BitAnd(first_byte, PRIMPAR_INDEX), 0, <<>>))
    ELSE IF BitAnd(first_byte, PRIMPAR_CONST_SIGN) # 0
    THEN Ok(p, Num(BitAnd(first_byte, PRIMPAR_VALUE) - (PRIMPAR_VALUE + 1)))
    ELSE Ok(p, Num(BitAnd(first_byte, PRIMPAR_VALUE)))

parse_param(param, f, p) ==
    IF Remaining(f, p) < 1 THEN Fail("TypeError", p)
    ELSE IF BitAnd(f[p + 1], PRIMPAR_LONG) # 0 THEN
        IF BitAnd(f[p + 1], PRIMPAR_VARIABLE) # 0
        THEN LongVariable(f[p + 1], f, p + 1)
        ELSE LongConst(param, f[p + 1], f, p + 1)
    ELSE ShortForm(f[p + 1], p + 1)

\* params.append(...): the list with one more text, or the exception
Collect(acc, r) ==
    IF r.err # "" THEN FailList(r.err, r.pos)
    ELSE OkList(r.pos, Append(acc.vs, r.v))

\* n parameters of one kind in a row, appended to acc.vs; the first
\* exception ends it
RECURSIVE ParseMany(_, _, _, _)
ParseMany(param, n, f, acc) ==
    IF n <= 0 \/ acc.err # "" THEN acc
    ELSE ParseMany(param, n - 1, f, Collect(acc, parse_param(param, f, acc.pos)))

-----------------------------------------------------------------------------
(* The catalogue of operations.  lmsdisasm.py takes Op, Param and Subparam *)
(* from lms2012; an entry is a name and the kinds of its parameters.  The  *)
(* entries kept here are the operations lmsdisasm.py names (OBJECT_END,    *)
(* RETURN, CALL, the JR family) and one entry for each shape of signature  *)
(* that parse_ops and parse_subparam tell apart: a subcode alone, a        *)
(* subcode followed by a parameter, and subcodes with PARNO and PARVALUES. *)

OBJECT_END == 10
RETURN == 8

OpCodes == {0, 1, 2, 8, 9, 10, 48, 64, 65, 153, 154}

Op(byte) ==
    CASE byte = 0 -> [name |-> "ERROR", params |-> <<>>]
      [] byte = 1 -> [name |-> "NOP", params |-> <<>>]
      [] byte = 2 -> [name |-> "PROGRAM_STOP", params |-> <<"PAR16">>]
      [] byte = RETURN -> [name |-> "RETURN", params |-> <<>>]
      [] byte = 9 -> [name |-> "CALL", params |-> <<"PAR16", "PARNO">>]
      [] byte = OBJECT_END -> [name |-> "OBJECT_END", params |-> <<>>]
      [] byte = 48 -> [name |-> "MOVE8_8", params |-> <<"PAR8", "PAR8">>]
      [] byte = 64 -> [name |-> "JR", params |-> <<"PAR32">>]
      [] byte = 65 -> [name |-> "JR_FALSE", params |-> <<"PAR8", "PAR32">>]
      [] byte = 153 -> [name |-> "SUBOP", params |-> <<"SUBP">>]
      [] byte = 154 -> [name |-> "SUBOP_PAR8", params |-> <<"SUBP", "PAR8">>]

\* isinstance(param, Subparam)
IsSubparam(param) == param = "SUBP"

\* the discriminators Subparam.subcode_type resolves
Subcodes(type) == IF type = "SUBP" THEN {0, 1, 9} ELSE {}

subcode_type(type, n) ==
    CASE n = 0 -> [name |-> "SC_NONE", params |-> <<>>]
      [] n = 1 -> [name |-> "SC_VARARGS", params |-> <<"PARNO">>]
      [] n = 9 -> [name |-> "SC_VALUES", params |-> <<"PAR8", "PARVALUES", "PAR8">>]

\* op.name[:2] == "JR"
IsJump(name) == name \in {"JR", "JR_FALSE"}

Last(seq) == seq[Len(seq)]
Front(seq) == SubSeq(seq, 1, Len(seq) - 1)

\* range(int(text)): how many turns; a number of 2^31 and more outlasts
\* any input, as every parameter takes a byte at least
Count(t, f) == IF t.k = "big" THEN Len(f) + 1 ELSE t.n

-----------------------------------------------------------------------------
(* parse_subparam *)

\* SubparamVarargs with the count deleted whatever its value
SubparamVarargsDropsCount(f, acc) ==
    IF acc.err # "" THEN acc
    ELSE IF ~IsInt(Last(acc.vs)) THEN FailList("ValueError", acc.pos)
    ELSE ParseMany("PARV", Count(Last(acc.vs), f), f, OkList(acc.pos, Front(acc.vs)))

\* lines 247-252: the PARNO just decoded is the last of acc.vs; it is
\* deleted only when it is zero, else that many PARV follow it
SubparamVarargs(f, acc) ==
    IF acc.err # "" THEN acc
    ELSE IF ~IsInt(Last(acc.vs)) THEN FailList("ValueError", acc.pos)
    ELSE IF Last(acc.vs) = Num(0) THEN OkList(acc.pos, Front(acc.vs))
    ELSE ParseMany("PARV", Count(Last(acc.vs), f), f, acc)

\* the loop of lines 235-252 from the i-th parameter of the subcode on;
\* values is the repeat count a PARVALUES left, -1 before any
RECURSIVE SubparamLoop(_, _, _, _, _)
SubparamLoop(params, i, values, f, acc) ==
    IF i > Len(params) \/ acc.err # "" THEN acc
    ELSE IF params[i] = "PARVALUES" THEN
        IF ~IsInt(Last(acc.vs)) THEN FailList("ValueError", acc.pos)
        ELSE SubparamLoop(params, i + 1, Count(Last(acc.vs), f), f, acc)
    ELSE IF values >= 0 THEN
        SubparamLoop(params, i + 1, 0, f, ParseMany(params[i], values, f, acc))
    ELSE IF params[i] = "PARNO" THEN
        SubparamLoop(params, i + 1, values, f,
                     SubparamVarargs(f, ParseMany(params[i], 1, f, acc)))
    ELSE SubparamLoop(params, i + 1, values, f, ParseMany(params[i], 1, f, acc))

\* the subcode of lines 229-232 resolves
Resolves(type, value) ==
    value.w = "" /\ value.k = "num" /\ value.n \in Subcodes(type)

parse_subparam(type, value, f, p) ==
    IF ~Resolves(type, value) THEN OkList(p, <<Name("DAMMIT")>>)
    ELSE SubparamLoop(subcode_type(type, value.n).params, 1, -1, f,
                      OkList(p, <<Name(subcode_type(type, value.n).name)>>))

-----------------------------------------------------------------------------
(* parse_ops *)

\* lines 148-152: the PARNO just decoded is the last of acc.vs; it is
\* deleted and that many PARV are decoded in its place
OpVarargs(f, acc) ==
    IF ~IsInt(Last(acc.vs)) THEN FailList("ValueError", acc.pos)
    ELSE ParseMany("PARV", Count(Last(acc.vs), f), f, OkList(acc.pos, Front(acc.vs)))

\* line 141: the text of a subcode and its parameters joins the list
JoinSubparam(acc, sub) ==
    IF sub.err # "" THEN sub ELSE OkList(sub.pos, acc.vs \o sub.vs)

\* lines 140-141: the subcode is decoded, then what it stands for
SubparamOf(param, f, acc, value) ==
    IF value.err # "" THEN FailList(value.err, value.pos)
    ELSE JoinSubparam(acc, parse_subparam(param, value.v, f, value.pos))

\* lines 139-143: one declared parameter
OneParam(param, f, acc) ==
    IF IsSubparam(param) THEN SubparamOf(param, f, acc, parse_param(param, f, acc.pos))
    ELSE ParseMany(param, 1, f, acc)

\* lines 145-146: "OBJECT{0}".format(params[-1])
CallTarget(name, param, acc) ==
    IF acc.err = "" /\ name = "CALL" /\ param = "PAR16"
    THEN OkList(acc.pos, Append(Front(acc.vs), [Last(acc.vs) EXCEPT !.w = "OBJECT"]))
    ELSE acc

\* lines 148-152, when the parameter is a PARNO
Varargs(param, f, acc) ==
    IF acc.err = "" /\ param = "PARNO" THEN OpVarargs(f, acc) ELSE acc

\* the loop of lines 138-152 from the i-th declared parameter on
RECURSIVE OpLoop(_, _, _, _)
OpLoop(op, i, f, acc) ==
    IF i > Len(op.params) \/ acc.err # "" THEN acc
    ELSE OpLoop(op, i + 1, f,
                Varargs(op.params[i], f,
                        CallTarget(op.name, op.params[i],
                                   OneParam(op.params[i], f, acc))))

\* lines 155-158: the displacement as a signed 16-bit number
Displacement(offset32) ==
    IF (offset32 % 65536) >= 32768 THEN (offset32 % 65536) - 65536
    ELSE offset32 % 65536

\* lines 154-160: the last parameter of a jump becomes OFFSET<id>_<target>
JumpTarget(name, acc, start_, id_) ==
    IF acc.err # "" \/ ~IsJump(name) THEN acc
    ELSE IF acc.vs = <<>> THEN FailList("IndexError", acc.pos)
    ELSE IF ~IsInt(Last(acc.vs)) THEN FailList("ValueError", acc.pos)
    ELSE OkList(acc.pos,
                Append(Front(acc.vs),
                       Tok("offset", "", acc.pos - start_ + Displacement(Last(acc.vs).n),
                           id_, <<>>)))

Instr(e, end, p, name, params) ==
    [err |-> e, end |-> end, pos |-> p, name |-> name, params |-> params]

\* line 161: "{0}({1})".format(op.name, ",".join(params))
Rendered(name, acc) == Instr(acc.err, FALSE, acc.pos, name, acc.vs)

\* parse_ops: end is the None it returns at the end of the input and at OBJECT_END
parse_ops(f, p, start_, id_) ==
    IF Remaining(f, p) < 1 THEN Instr("", TRUE, p, "", <<>>)
    ELSE IF f[p + 1] \notin OpCodes THEN Instr("ValueError", FALSE, p + 1, "", <<>>)
    ELSE IF f[p + 1] = OBJECT_END THEN Instr("", TRUE, p + 1, "", <<>>)
    ELSE Rendered(Op(f[p + 1]).name,
                  JumpTarget(Op(f[p + 1]).name,
                             OpLoop(Op(f[p + 1]), 1, f, OkList(p + 1, <<>>)),
                             start_, id_))

-----------------------------------------------------------------------------
(* Printed lines.  t: which print statement, n and m: its numbers,         *)
(* name and params: the text of an operation.                              *)

Line(t, n, m, name, params) ==
    [t |-> t, n |-> n, m |-> m, name |-> name, params |-> params]

Note(t) == Line(t, 0, 0, "", <<>>)
Text(t, name, params) == Line(t, 0, 0, name, params)

-----------------------------------------------------------------------------
(* The system commands and the reply types (lms2012, c_com.h). *)

BEGIN_DOWNLOAD == 146
CONTINUE_DOWNLOAD == 147
CLOSE_FILEHANDLE == 152

SysOpCodes == {BEGIN_DOWNLOAD, CONTINUE_DOWNLOAD, CLOSE_FILEHANDLE}

SysOp(byte) ==
    CASE byte = BEGIN_DOWNLOAD ->
            [name |-> "BEGIN_DOWNLOAD", params |-> <<PRIMPAR_4_BYTES, PRIMPAR_STRING>>]
      [] byte = CONTINUE_DOWNLOAD ->
            [name |-> "CONTINUE_DOWNLOAD", params |-> <<PRIMPAR_1_BYTE>>]
      [] byte = CLOSE_FILEHANDLE ->
            [name |-> "CLOSE_FILEHANDLE", params |-> <<PRIMPAR_1_BYTE>>]

SysOpReturns == 0 .. 13

DIRECT_REPLY == 2
SYSTEM_REPLY == 3
DIRECT_REPLY_ERROR == 4
SYSTEM_REPLY_ERROR == 5

-----------------------------------------------------------------------------
(* u16, u8 *)

u16(f, p) ==
    IF Remaining(f, p) < 2 THEN Fail("TypeError", Len(f))
    ELSE Ok(p + 2, Num(f[p + 1] + 256 * f[p + 2]))

u8(f, p) ==
    IF Remaining(f, p) < 1 THEN Fail("TypeError", Len(f))
    ELSE Ok(p + 1, Num(f[p + 1]))

-----------------------------------------------------------------------------
(* The files of the working directory and the global filename. *)

Undefined == [set |-> FALSE, name |-> <<>>]
Defined(name) == [set |-> TRUE, name |-> name]

\* os.remove(filename), OSError ignored
Remove(files, name) == [n \in (DOMAIN files) \ {name} |-> files[n]]

\* AppendTo that opens the file for writing, not for appending
AppendOverwrites(files, name, data) ==
    [n \in (DOMAIN files) \cup {name} |-> IF n = name THEN data ELSE files[n]]

\* open(filename, "ab"); f.write(data)
AppendTo(files, name, data) ==
    [n \in (DOMAIN files) \cup {name} |->
        IF n # name THEN files[n]
        ELSE IF name \in DOMAIN files THEN files[name] \o data
        ELSE data]

\* os.path.split(path)[1]: what follows the last "/"
RECURSIVE Basename(_)
Basename(path) ==
    IF path = <<>> THEN <<>>
    ELSE IF Last(path) = 47 THEN <<>>
    ELSE Append(Basename(Front(path)), Last(path))

\* params[1][1:-1]
StripQuotes(text) == SubSeq(text, 2, Len(text) - 1)

-----------------------------------------------------------------------------
(* parse_sysops *)

\* lines 111-112: the parameters of a system command, from the i-th on
RECURSIVE SysParams(_, _, _, _)
SysParams(sizes, i, f, acc) ==
    IF i > Len(sizes) \/ acc.err # "" THEN acc
    ELSE SysParams(sizes, i + 1, f, Collect(acc, parse_primpar(sizes[i], f, acc.pos)))

SysResult(e, p, lines, name_, files) ==
    [err |-> e, pos |-> p, lines |-> lines, filename |-> name_, fs |-> files]

\* line 124
Dumping(n, name_) == Line("dumping", n, 0, "", <<Str(name_.name)>>)

\* lines 122-126: the rest of the packet goes to the file named by the
\* global; the name is read first, by the print
ContinueDownload(f, p, cmd, name_, files) ==
    IF ~name_.set THEN SysResult("NameError", Len(f), <<>>, name_, files)
    ELSE IF name_.name = <<>>
    THEN SysResult("IOError", Len(f), <<Dumping(Len(f) - p, name_)>>, name_, files)
    ELSE SysResult("", Len(f), <<Dumping(Len(f) - p, name_), cmd>>, name_,
                   AppendTo(files, name_.name, SubSeq(f, p + 1, Len(f))))

\* lines 115-121: the file named by the path is removed and becomes the global
BeginDownload(p, path, cmd, files) ==
    SysResult("", p, <<cmd>>, Defined(Basename(StripQuotes(path))),
              Remove(files, Basename(StripQuotes(path))))

\* lines 114-128, once the parameters r of the command are decoded
SysCommand(f, byte, r, name_, files) ==
    IF r.err # "" THEN SysResult(r.err, r.pos, <<>>, name_, files)
    ELSE IF byte = BEGIN_DOWNLOAD
    THEN BeginDownload(r.pos, r.vs[2].b, Text("sysline", SysOp(byte).name, r.vs), files)
    ELSE IF byte = CONTINUE_DOWNLOAD
    THEN ContinueDownload(f, r.pos, Text("sysline", SysOp(byte).name, r.vs), name_, files)
    ELSE SysResult("", r.pos, <<Text("sysline", SysOp(byte).name, r.vs)>>, name_, files)

\* parse_sysops and the print of its line (lines 301-302)
parse_sysops(f, p, name_, files) ==
    IF Remaining(f, p) < 1
    THEN SysResult("", p, <<Text("sysline", "None", <<>>)>>, name_, files)
    ELSE IF f[p + 1] \notin SysOpCodes
    THEN SysResult("ValueError", p + 1, <<>>, name_, files)
    ELSE SysCommand(f, f[p + 1],
                    SysParams(SysOp(f[p + 1]).params, 1, f, OkList(p + 1, <<>>)),
                    name_, files)

-----------------------------------------------------------------------------
(* parse_sent, up to the loop over the operations of a direct command *)

SentResult(e, done, loop, p, lines, name_, files) ==
    [err |-> e, done |-> done, loop |-> loop, pos |-> p, lines |-> lines,
     filename |-> name_, fs |-> files]

\* lines 288-291: the counts of locals and globals
DirectHead(msg, local_global, p, name_, files) ==
    IF local_global.err # ""
    THEN SentResult(local_global.err, FALSE, FALSE, p, <<msg>>, name_, files)
    ELSE SentResult("", TRUE, TRUE, local_global.pos,
                    <<msg, Line("localglobal", local_global.v.n \div 1024,
                                local_global.v.n % 1024, "", <<>>)>>,
                    name_, files)

\* lines 299-302: one system command
SystemHead(msg, r) ==
    SentResult(r.err, r.err = "", FALSE, r.pos, <<msg, Note("sysop")>> \o r.lines,
               r.filename, r.fs)

\* lines 284-309: the body of a complete packet, by its type
SentBody(f, p, msgid, type, name_, files) ==
    IF type = 0 \/ type = 128
    THEN DirectHead(Line("msg", msgid, 0, "", <<>>), u16(f, p), p, name_, files)
    ELSE IF type = 1 \/ type = 129
    THEN SystemHead(Line("msg", msgid, 0, "", <<>>), parse_sysops(f, p, name_, files))
    ELSE SentResult("", TRUE, FALSE, p,
                    <<Line("msg", msgid, 0, "", <<>>), Line("type", type, 0, "", <<>>)>>,
                    name_, files)

\* line 279: the length check
LengthFits(size, actual_size) == size = actual_size - 2

\* line 283
SentType(f, msgid, type, name_, files) ==
    IF type.err # "" THEN SentResult(type.err, FALSE, FALSE, 0, <<>>, name_, files)
    ELSE SentBody(f, type.pos, msgid.v.n, type.v.n, name_, files)

\* line 282
SentMsgid(f, msgid, name_, files) ==
    IF msgid.err # "" THEN SentResult(msgid.err, FALSE, FALSE, 0, <<>>, name_, files)
    ELSE SentType(f, msgid, u8(f, msgid.pos), name_, files)

\* lines 279-281
SentSize(f, actual_size, size, name_, files) ==
    IF size.err # "" THEN SentResult(size.err, FALSE, FALSE, 0, <<>>, name_, files)
    ELSE IF ~LengthFits(size.v.n, actual_size)
    THEN SentResult("", FALSE, FALSE, size.pos,
                    <<Line("incomplete", size.v.n, actual_size - 2, "", <<>>)>>,
                    name_, files)
    ELSE SentMsgid(f, u16(f, size.pos), name_, files)

parse_sent(f, actual_size, name_, files) ==
    SentSize(f, actual_size, u16(f, 0), name_, files)

-----------------------------------------------------------------------------
(* parse_received, parse_generic_reply, parse_system_reply *)

RecvResult(e, lines) == [err |-> e, lines |-> lines]

parse_generic_reply(f, p) ==
    IF Remaining(f, p) < 4 THEN RecvResult("struct.error", <<>>)
    ELSE RecvResult("", <<Line("float", 0, 0, "",
                               <<Tok("float", "", 0, 0, SubSeq(f, p + 1, p + 4))>>)>>)

\* line 340
SystemStatus(to_command, status) ==
    IF status.err # "" THEN RecvResult(status.err, <<>>)
    ELSE IF status.v.n \notin SysOpReturns THEN RecvResult("ValueError", <<>>)
    ELSE RecvResult("", <<Line("cmd", to_command, status.v.n,
                               SysOp(to_command).name, <<>>)>>)

\* line 339
SystemCommandOf(f, to_command) ==
    IF to_command.err # "" THEN RecvResult(to_command.err, <<>>)
    ELSE IF to_command.v.n \notin SysOpCodes THEN RecvResult("ValueError", <<>>)
    ELSE SystemStatus(to_command.v.n, u8(f, to_command.pos))

parse_system_reply(f, p) == SystemCommandOf(f, u8(f, p))

\* lines 318-331: which reply it is
ReplyName(type) ==
    IF type = DIRECT_REPLY THEN "ok"
    ELSE IF type = SYSTEM_REPLY THEN "sysok"
    ELSE IF type = DIRECT_REPLY_ERROR THEN "error"
    ELSE IF type = SYSTEM_REPLY_ERROR THEN "syserror"
    ELSE "unknown"

ReplyLines(msgid, type, reply) ==
    RecvResult(reply.err,
               <<Line("for", msgid, 0, "", <<>>), Note(ReplyName(type))>> \o reply.lines)

\* lines 317-331: the reply, by its type
ReceivedBody(f, p, msgid, type) ==
    IF type = DIRECT_REPLY \/ type = DIRECT_REPLY_ERROR
    THEN ReplyLines(msgid, type, parse_generic_reply(f, p))
    ELSE IF type = SYSTEM_REPLY \/ type = SYSTEM_REPLY_ERROR
    THEN ReplyLines(msgid, type, parse_system_reply(f, p))
    ELSE ReplyLines(msgid, type, RecvResult("", <<>>))

\* line 316
ReceivedType(f, msgid, type) ==
    IF type.err # "" THEN RecvResult(type.err, <<>>)
    ELSE ReceivedBody(f, type.pos, msgid.v.n, type.v.n)

\* line 315
ReceivedMsgid(f, msgid) ==
    IF msgid.err # "" THEN RecvResult(msgid.err, <<>>)
    ELSE ReceivedType(f, msgid, u8(f, msgid.pos))

\* line 314
ReceivedSize(f, size) ==
    IF size.err # "" THEN RecvResult(size.err, <<>>)
    ELSE ReceivedMsgid(f, u16(f, size.pos))

parse_received(f) == ReceivedSize(f, u16(f, 0))

-----------------------------------------------------------------------------
(* parse_object: the loop over the operations of one object (lines 87-100) *)

\* the bytes an object's instruction stream is drawn from: as operations
\* ERROR, NOP, PROGRAM_STOP, RETURN, CALL, OBJECT_END, JR, SUBOP,
\* SUBOP_PAR8; as parameters the constants 0, 1, 2, 8, 9, 10, the variable
\* LOCAL0 and two long constants
CodeBytes == {0, 1, 2, 8, 9, 10, 64, 153, 154}

RECURSIVE SeqsUpTo(_, _)
SeqsUpTo(S, n) ==
    IF n = 0 THEN {<<>>}
    ELSE SeqsUpTo(S, n - 1)
             \cup {Append(q, x) : q \in {r \in SeqsUpTo(S, n - 1) : Len(r) = n - 1},
                                  x \in S}

\* instruction streams with a list of two values: a CALL and a SUBOP with
\* the subcode SC_VARARGS
ListCodes ==
    {<<9, 0, 2, a, b>> : a, b \in {0, 1}}
        \cup {<<153, 1, 2, a, b>> : a, b \in {0, 1}}

\* the instruction streams of the objects
Codes == SeqsUpTo(CodeBytes, MaxCode) \cup ListCodes

\* the object headers: the number of the object and header.offset
ObjectHeaders == {[id |-> 1, offset |-> 2], [id |-> 2, offset |-> 5]}

\* the bytes before header.offset (headers, earlier objects) are not read here
Padding(n) == [i \in 1 .. n |-> 0]

\* Suppress that leaves out every RETURN()
SuppressAnyReturn(name, params, peek) == name = "RETURN" /\ params = <<>>

\* lines 93-98: a RETURN() right before OBJECT_END is not printed
Suppress(name, params, peek) ==
    name = "RETURN" /\ params = <<>> /\ peek = OBJECT_END

\* lines 95-96: the cursor after read(1) and seek(-1, os.SEEK_CUR)
Peek(p) == p + 1 - 1

InitObject ==
    /\ \E h \in ObjectHeaders, code \in Codes :
          /\ infile = Padding(h.offset) \o code
          /\ pos = h.offset
          /\ start = h.offset
          /\ id = h.id
    /\ pc = "ops"
    /\ err = ""
    /\ out = <<>>
    /\ buffer = <<>>
    /\ filename = Undefined
    /\ fs = <<>>
    /\ cur = [sent |-> FALSE, data |-> <<>>]
    /\ sentlog = <<>>
    /\ nrec = 0

\* line 92
Label(offset) == Line("label", id, offset - start, "", <<>>)

\* lines 90-99 for the line parse_ops gave at the cursor offset
Render(offset, line) ==
    IF line.err # "" THEN
        /\ pc' = "crashed"
        /\ err' = line.err
        /\ UNCHANGED <<pos, out>>
    ELSE IF line.end THEN
        /\ pc' = "done"
        /\ out' = Append(out, Note("close"))
        /\ pos' = line.pos
        /\ UNCHANGED err
    ELSE IF line.name = "RETURN" /\ line.params = <<>> THEN
        IF Remaining(infile, line.pos) < 1 THEN
            /\ pc' = "crashed"
            /\ err' = "TypeError"
            /\ out' = Append(out, Label(offset))
            /\ pos' = line.pos
        ELSE
            /\ pos' = Peek(line.pos)
            /\ out' = IF Suppress(line.name, line.params, infile[line.pos + 1])
                      THEN Append(out, Label(offset))
                      ELSE out \o <<Label(offset), Text("text", line.name, line.params)>>
            /\ UNCHANGED <<pc, err>>
    ELSE
        /\ pos' = line.pos
        /\ out' = out \o <<Label(offset), Text("text", line.name, line.params)>>
        /\ UNCHANGED <<pc, err>>

\* one turn of the while loop of parse_object
ObjectStep ==
    /\ pc = "ops"
    /\ Render(pos, parse_ops(infile, pos, start, id))
    /\ UNCHANGED <<infile, start, id, buffer, filename, fs, cur, sentlog, nrec>>

NextObject == ObjectStep

SpecObject == InitObject /\ [][NextObject]_vars

-----------------------------------------------------------------------------
(* The records of a trace: what the serial log holds.  A packet is its     *)
(* length in two bytes, the message number in two bytes, the type and the  *)
(* body; a fragment is a piece of a packet that was logged on its own.     *)

U16(n) == <<n % 256, n \div 256>>

Frame(msgid, type, body) ==
    U16(3 + Len(body)) \o U16(msgid) \o <<type>> \o body

\* a direct command, no reply wanted: 1 local and 2 globals, then operations
DirectCommand(msgid, ops) == Frame(msgid, 128, U16(1026) \o ops)

\* BEGIN_DOWNLOAD: the length of the file, then its path
BeginPacket(msgid, path) ==
    Frame(msgid, 1, <<BEGIN_DOWNLOAD, 3, 0, 0, 0>> \o path \o <<0>>)

\* CONTINUE_DOWNLOAD: the handle, then the payload
ContinuePacket(msgid, payload) ==
    Frame(msgid, 129, <<CONTINUE_DOWNLOAD, 0>> \o payload)

\* the bodies of the direct commands: NOP and OBJECT_END in turn
DirectBodies == {<<>>, <<1, 1>>, <<10, 1>>, <<1, 10, 1>>}

\* "a", "b" and "d/a"
Paths == {<<97>>, <<98>>, <<100, 47, 97>>}

Payloads == {<<7>>, <<8, 9>>}

\* the packet that is also logged in pieces
Fragmented == ContinuePacket(2, <<7>>)

Fragments ==
    {SubSeq(Fragmented, 1, 2), SubSeq(Fragmented, 3, Len(Fragmented)),
     SubSeq(Fragmented, 1, 5), SubSeq(Fragmented, 6, Len(Fragmented)),
     SubSeq(Fragmented, 3, 5)}

SentData ==
    {DirectCommand(1, ops) : ops \in DirectBodies}
        \cup {BeginPacket(2, path) : path \in Paths}
        \cup {ContinuePacket(2, payload) : payload \in Payloads}
        \cup {Frame(3, 5, <<>>)}
        \cup Fragments

ReceivedData ==
    {Frame(1, DIRECT_REPLY, <<0, 0, 128, 63>>),
     Frame(2, SYSTEM_REPLY, <<CONTINUE_DOWNLOAD, 0>>),
     Frame(3, 9, <<>>)}

Records ==
    {[sent |-> TRUE, data |-> d] : d \in SentData}
        \cup {[sent |-> FALSE, data |-> d] : d \in ReceivedData}

-----------------------------------------------------------------------------
(* parse_communication *)

\* Packet without the buffer
PacketNewestOnly(buffer_, data) == data

\* line 352: what the record is decoded from
Packet(buffer_, data) == buffer_ \o data

\* NextBuffer that keeps what was buffered before
NextBufferConcat(done, buffer_, data) == IF done THEN <<>> ELSE buffer_ \o data

\* lines 355-358: the buffer after a sent record
NextBuffer(done, buffer_, data) == IF done THEN <<>> ELSE data

\* a file left in the working directory by an earlier run
StaleFiles == [n \in {<<97>>} |-> <<66>>]

InitTrace ==
    /\ infile = <<>>
    /\ pos = 0
    /\ start = 0
    /\ id = 42
    /\ pc = "idle"
    /\ err = ""
    /\ out = <<>>
    /\ buffer = <<>>
    /\ filename = Undefined
    /\ fs = StaleFiles
    /\ cur = [sent |-> FALSE, data |-> <<>>]
    /\ sentlog = <<>>
    /\ nrec = 0

\* line 350
DataLine(rec) == Line("data", 0, 0, "", <<Str(rec.data)>>)

\* lines 353-358 for what parse_sent gave up to its loop
Sent(rec, r) ==
    /\ pos' = r.pos
    /\ out' = <<DataLine(rec)>> \o r.lines
    /\ err' = r.err
    /\ filename' = r.filename
    /\ fs' = r.fs
    /\ sentlog' = Append(sentlog, [data |-> rec.data,
                                   incomplete |-> r.err = "" /\ ~r.done])
    /\ pc' = IF r.err # "" THEN "crashed"
             ELSE IF r.loop THEN "direct"
             ELSE "idle"
    /\ buffer' = IF r.err # "" \/ r.loop THEN buffer
                 ELSE NextBuffer(r.done, buffer, rec.data)

\* a sent record: parse_sent up to its loop, and lines 355-358 when there
\* is no loop to run
SentRecord(rec) ==
    /\ pc = "idle"
    /\ nrec < MaxRecords
    /\ rec.sent
    /\ infile' = Packet(buffer, rec.data)
    /\ Sent(rec, parse_sent(Packet(buffer, rec.data), Len(Packet(buffer, rec.data)),
                            filename, fs))
    /\ cur' = rec
    /\ nrec' = nrec + 1
    /\ UNCHANGED <<start, id>>

\* Break that leaves the loop at its first turn
BreakAtOnce(line) == TRUE

\* lines 295-296: "if not line: break"
Break(line) == line.end

\* lines 294-297 for the line parse_ops gave
Direct(line) ==
    IF line.err # "" THEN
        /\ pc' = "crashed"
        /\ err' = line.err
        /\ UNCHANGED <<pos, out, buffer>>
    ELSE IF Break(line) THEN
        /\ pc' = "idle"
        /\ pos' = line.pos
        /\ buffer' = NextBuffer(TRUE, buffer, cur.data)
        /\ UNCHANGED <<err, out>>
    ELSE
        /\ pos' = line.pos
        /\ out' = Append(out, Text("text", line.name, line.params))
        /\ UNCHANGED <<pc, err, buffer>>

\* one turn of the loop of lines 293-297; at its end parse_sent returns
\* True and line 356 clears the buffer
DirectStep ==
    /\ pc = "direct"
    /\ Direct(parse_ops(infile, pos, 0, 42))
    /\ UNCHANGED <<infile, start, id, filename, fs, cur, sentlog, nrec>>

\* lines 360 for what parse_received gave
Received(rec, r) ==
    /\ out' = <<DataLine(rec)>> \o r.lines
    /\ err' = r.err
    /\ pc' = IF r.err # "" THEN "crashed" ELSE "idle"

\* a received record: parse_received
ReceivedRecord(rec) ==
    /\ pc = "idle"
    /\ nrec < MaxRecords
    /\ ~rec.sent
    /\ infile' = Packet(buffer, rec.data)
    /\ Received(rec, parse_received(Packet(buffer, rec.data)))
    /\ cur' = rec
    /\ nrec' = nrec + 1
    /\ UNCHANGED <<pos, start, id, buffer, filename, fs, sentlog>>

NextTrace ==
    \/ \E rec \in Records : SentRecord(rec)
    \/ DirectStep
    \/ \E rec \in Records : ReceivedRecord(rec)

SpecTrace == InitTrace /\ [][NextTrace]_vars

\* the loop of parse_sent runs on once entered: nothing else is scheduled
FairSpecTrace == SpecTrace /\ WF_vars(DirectStep)

-----------------------------------------------------------------------------
(* Properties of the trace decoder (SpecTrace). *)

\* the length a packet declares in its first two bytes
Declared(packet) == packet[1] + 256 * packet[2]

\* the latest record was a sent one
SentLatest == nrec > 0 /\ cur.sent

\* the sent record before the latest sent one was reported incomplete
AfterIncomplete ==
    SentLatest /\ Len(sentlog) >= 2 /\ sentlog[Len(sentlog) - 1].incomplete

\* what is printed after the message number for a packet of this type
BodyPrinted(packet) ==
    IF packet[5] \in {1, 129} THEN Len(out) >= 3 /\ out[3] = Note("sysop")
    ELSE IF packet[5] \in {0, 128}
    THEN Len(packet) >= 7 => (Len(out) >= 3 /\ out[3].t = "localglobal")
    ELSE Len(out) >= 3 /\ out[3] = Line("type", packet[5], 0, "", <<>>)

\* C1: when the sent record A before the latest sent record B was reported
\* incomplete, B is decoded from A's bytes followed by B's bytes; and when
\* the length these declare is their length minus 2, B is not reported
\* incomplete: the message number and the type are read from bytes 3 to 5
\* and the body is decoded by its type (a packet too short to hold them
\* ends the run with the exception of a read past the end).
C1_Reassembly ==
    AfterIncomplete =>
        LET packet == sentlog[Len(sentlog) - 1].data \o cur.data IN
        /\ infile = packet
        /\ Declared(packet) = Len(packet) - 2 =>
              /\ \A i \in DOMAIN out : out[i].t # "incomplete"
              /\ IF Len(packet) < 5 THEN pc = "crashed" /\ err = "TypeError"
                 ELSE /\ Len(out) >= 2
                      /\ out[2] = Line("msg", packet[3] + 256 * packet[4], 0, "", <<>>)
                      /\ BodyPrinted(packet)

\* two fragments were put together and decoded as one system command,
\* whose payload reached the file
C1_Witness ==
    /\ AfterIncomplete
    /\ Declared(infile) = Len(infile) - 2
    /\ pc = "idle"
    /\ out[2] = Line("msg", 2, 0, "", <<>>)
    /\ filename.set
    /\ filename.name \in DOMAIN fs
    /\ fs[filename.name] = <<7>>

\* C2: once a sent record is processed, the buffer is empty if the length
\* check of its packet succeeded, and else it is the bytes of that record
\* alone, without what was buffered before.
C2_BufferRule ==
    (SentLatest /\ pc = "idle") =>
        buffer = IF Declared(infile) = Len(infile) - 2 THEN <<>> ELSE cur.data

\* two sent records in a row were incomplete: only the second is kept
C2_Witness ==
    /\ AfterIncomplete
    /\ pc = "idle"
    /\ sentlog[Len(sentlog)].incomplete
    /\ sentlog[Len(sentlog) - 1].data # <<>>
    /\ buffer = cur.data
    /\ buffer # infile

\* C3: the message number and the reply type of a received record are read
\* from that record's own bytes, whatever the buffer holds.
C3_ReceivedOwnBytes ==
    (nrec > 0 /\ ~cur.sent /\ pc = "idle") =>
        /\ out[2] = Line("for", cur.data[3] + 256 * cur.data[4], 0, "", <<>>)
        /\ out[3] = Note(ReplyName(cur.data[5]))

\* the packet of a record of the log, given what was buffered before it
PacketOf(buf, e) == buf \o e.data

\* a complete packet that holds the system command op
IsCommand(packet, e, op) ==
    /\ ~e.incomplete
    /\ Len(packet) >= 6
    /\ Declared(packet) = Len(packet) - 2
    /\ packet[5] \in {1, 129}
    /\ packet[6] = op

\* the path of a BEGIN_DOWNLOAD: after the command and the four bytes of
\* the length, up to the closing zero
PathOf(packet) == SubSeq(packet, 11, Len(packet) - 1)

\* the payload of a CONTINUE_DOWNLOAD: after the command and its handle
PayloadOf(packet) == SubSeq(packet, 8, Len(packet))

\* the files the sent records of the log should leave: a begin-download
\* empties its file and makes it the sink, a continue-download adds its
\* payload to the sink, if there is one
RECURSIVE Downloads(_, _, _, _, _)
Downloads(log, i, buf, sink, files) ==
    IF i > Len(log) THEN files
    ELSE IF IsCommand(PacketOf(buf, log[i]), log[i], BEGIN_DOWNLOAD) THEN
        Downloads(log, i + 1, <<>>, Defined(Basename(PathOf(PacketOf(buf, log[i])))),
                  [n \in (DOMAIN files) \ {Basename(PathOf(PacketOf(buf, log[i])))} |->
                      files[n]])
    ELSE IF IsCommand(PacketOf(buf, log[i]), log[i], CONTINUE_DOWNLOAD) /\ sink.set THEN
        Downloads(log, i + 1, <<>>, sink,
                  [n \in (DOMAIN files) \cup {sink.name} |->
                      IF n # sink.name THEN files[n]
                      ELSE IF n \in DOMAIN files
                      THEN files[n] \o PayloadOf(PacketOf(buf, log[i]))
                      ELSE PayloadOf(PacketOf(buf, log[i]))])
    ELSE Downloads(log, i + 1, IF log[i].incomplete THEN log[i].data ELSE <<>>,
                   sink, files)

\* C4: the file named by the latest begin-download holds the payloads of
\* the continue-downloads since, in order, and nothing else; the file of
\* an earlier begin-download with another name keeps what it held.
C4_DownloadCapture == fs = Downloads(sentlog, 1, <<>>, Undefined, StaleFiles)

\* a begin-download of "a" and a payload, then a begin-download of "b"
\* and another payload
C4_Witness ==
    /\ pc = "idle"
    /\ nrec = 4
    /\ filename = Defined(<<98>>)
    /\ DOMAIN fs = {<<97>>, <<98>>}
    /\ fs[<<97>>] = <<7>>
    /\ fs[<<98>>] = <<8, 9>>

\* C5: a continue-download decoded while no begin-download came before
\* writes nothing, and the trace is processed on.
C5_ContinueWithoutSink ==
    (SentLatest /\ ~filename.set /\ Len(infile) >= 6
        /\ Declared(infile) = Len(infile) - 2
        /\ infile[5] \in {1, 129} /\ infile[6] = CONTINUE_DOWNLOAD) =>
        (pc = "idle" /\ fs = StaleFiles)

\* the latest record was a direct command and its loop is over
DirectDone ==
    /\ SentLatest
    /\ pc = "idle"
    /\ Len(infile) >= 7
    /\ Declared(infile) = Len(infile) - 2
    /\ infile[5] \in {0, 128}

\* C10 as claimed: the loop over a direct command ends only when the bytes
\* of the packet are exhausted.
C10_EndsAtLastByte == DirectDone => pos = Len(infile)

\* C10: the loop over a direct command ends when the bytes of the packet
\* are exhausted or when OBJECT_END was read where an operation starts, the
\* operations before that are printed, and the loop ends for every packet.
C10_DirectLoop ==
    /\ [](DirectDone => (pos = Len(infile) \/ infile[pos] = OBJECT_END))
    /\ [](DirectDone =>
            /\ \A i \in 4 .. Len(out) : out[i].t = "text" /\ out[i].name = "NOP"
            /\ Len(out) - 3 =
                   pos - 7 - (IF pos > 7 /\ infile[pos] = OBJECT_END THEN 1 ELSE 0))
    /\ (pc = "direct" ~> pc # "direct")

\* the loop ended at an OBJECT_END with an operation left behind it
C10_Witness ==
    /\ DirectDone
    /\ pos < Len(infile)
    /\ infile[pos] = OBJECT_END
    /\ Len(out) = 4

-----------------------------------------------------------------------------
(* Properties of the object disassembler (SpecObject). *)

\* the lines of the listing that are labels, and those that are operations
Labels == {i \in DOMAIN out : out[i].t = "label"}
Texts == {i \in DOMAIN out : out[i].t = "text"}

\* the labels that are followed by the operation they stand before
Printed == {i \in Labels : i + 1 \in Texts}

\* where the operation after the label of line i starts in the file
At(i) == start + out[i].m

\* C6: an object disassembled to its end has one label line for each start
\* of an operation, and each target of a jump printed in it has its label
\* line in the listing.
C6_LabelCoverage ==
    pc = "done" =>
        /\ \A i \in Texts : i - 1 \in Labels
        /\ \A i, j \in Labels : out[i].m = out[j].m => i = j
        /\ \A i \in Texts : \A k \in DOMAIN out[i].params :
              out[i].params[k].k = "offset" =>
                  \E j \in Labels : /\ out[j].m = out[i].params[k].n
                                    /\ out[j].n = out[i].params[k].m

\* the line of a RETURN, printed unless OBJECT_END is the next byte
ReturnLine ==
    IF infile[pos + 2] = OBJECT_END THEN <<>>
    ELSE <<Text("text", "RETURN", <<>>)>>

\* C7: a RETURN is printed unless the byte after it is OBJECT_END, its
\* label is printed in both cases, and looking at that byte does not move
\* the cursor: the next operation is decoded from the byte after RETURN.
C7_TrailingReturn ==
    [][(pc = "ops" /\ pos + 2 <= Len(infile) /\ infile[pos + 1] = RETURN) =>
          /\ pc' = "ops"
          /\ pos' = pos + 1
          /\ out' = out \o <<Label(pos)>> \o ReturnLine]_vars

\* an object with a RETURN in its middle, printed, and one at its end, left out
C7_Witness ==
    /\ pc = "done"
    /\ Len(infile) = start + 3
    /\ SubSeq(infile, start + 1, start + 3) = <<RETURN, RETURN, OBJECT_END>>
    /\ Len(out) = 4
    /\ out[2].t = "text" /\ out[2].name = "RETURN"
    /\ out[3].t = "label" /\ out[3].m = 1
    /\ out[4].t = "close"

\* the parameter that selects the subcode of the operation printed after
\* the label of line i
Selector(i) == parse_param("PAR8", infile, At(i) + 1)

\* the operation after the label of line i takes a subcode
TakesSubcode(i) ==
    /\ infile[At(i) + 1] \in OpCodes
    /\ Op(infile[At(i) + 1]).params # <<>>
    /\ IsSubparam(Op(infile[At(i) + 1]).params[1])

\* C8: when the subcode of an operation is not in the catalogue, the
\* operation is printed with the placeholder as its only parameter and the
\* next operation is decoded from the byte after the subcode.
C8_UnknownSubcode ==
    \A i \in Printed :
        (TakesSubcode(i) /\ ~Resolves(Op(infile[At(i) + 1]).params[1], Selector(i).v)) =>
            /\ out[i + 1].params = <<Name("DAMMIT")>>
            /\ (i + 2 \in Labels => At(i + 2) = Selector(i).pos)

\* the count of the variable list that starts at p, and the values after it
CountAt(p) == parse_param("PARNO", infile, p)
ValuesAt(p) == ParseMany("PARV", CountAt(p).v.n, infile, OkList(CountAt(p).pos, <<>>)).vs

\* the operation after the label of line i is a CALL
IsCall(i) == infile[At(i) + 1] = 9

\* the operation after the label of line i has the subcode SC_VARARGS
IsVarargsSubcode(i) ==
    /\ TakesSubcode(i)
    /\ Selector(i).v = Num(1)

\* the parameters printed for the subcode of the operation of line i
OfSubcode(i) == SubSeq(out[i + 1].params, 1, Len(out[i + 1].params) -
                       (Len(Op(infile[At(i) + 1]).params) - 1))

\* the count of a CALL is not printed, and as many values as it says are
CallCount ==
    \A i \in Printed : IsCall(i) =>
        out[i + 1].params =
            <<[parse_param("PAR16", infile, At(i) + 1).v EXCEPT !.w = "OBJECT"]>>
                \o ValuesAt(parse_param("PAR16", infile, At(i) + 1).pos)

\* C9 as claimed: the count of a variable list is not printed and as many
\* values as it says are decoded after it, in the signature of an
\* operation and in the signature of a subcode.
C9_CountNeverPrinted ==
    /\ CallCount
    /\ \A i \in Printed : IsVarargsSubcode(i) =>
          OfSubcode(i) = <<Name("SC_VARARGS")>> \o ValuesAt(Selector(i).pos)

\* C9: in the signature of an operation the count of a variable list is
\* not printed and as many values as it says are decoded after it; in the
\* signature of a subcode as many values are decoded, and the count is
\* left out only when it is zero: a count above zero is printed before
\* its values.
C9_CountPrintedInSubcode ==
    /\ CallCount
    /\ \A i \in Printed : IsVarargsSubcode(i) =>
          OfSubcode(i) =
              IF CountAt(Selector(i).pos).v.n = 0 THEN <<Name("SC_VARARGS")>>
              ELSE <<Name("SC_VARARGS"), CountAt(Selector(i).pos).v>>
                       \o ValuesAt(Selector(i).pos)

\* a subcode with a list of two values was printed, the count before them
C9_Witness ==
    \E i \in Printed :
        /\ IsVarargsSubcode(i)
        /\ CountAt(Selector(i).pos).v = Num(2)
        /\ OfSubcode(i) = <<Name("SC_VARARGS"), Num(2), Num(1), Num(0)>>

====
